---- MODULE Spec2Model ----
(***************************************************************************)
(* Model of dashboard-demo.py: a Streamlit script that is re-run from top  *)
(* to bottom on every user interaction.  One render cycle is              *)
(*   load (cached) -> sidebar filters -> main screen (three tabs).         *)
(*                                                                         *)
(* Conventions                                                             *)
(*  - an optional value is a sequence: None is <<>>, Some(x) is <<x>>;     *)
(*  - a DataFrame is the sequence of its rows (records);                   *)
(*  - a date is the integer yyyymmdd, which orders as Timestamps do;       *)
(*  - a string that the code sorts or formats is the sequence of its       *)
(*    character codes, so that string order is lexicographic order;        *)
(*  - a float is the exact rational [num, den]; den = 0 is NaN.            *)
(***************************************************************************)
EXTENDS Integers, Sequences, FiniteSets, TLC

VARIABLES
    cache,            \* st.cache_data entry of load_data_from_gsheets(sheet_id)
    fetches,          \* number of pd.read_csv(url) calls made by the process
    pc,               \* position of the script in the current render cycle
    error_shown,      \* st.error of the loader is on screen in this cycle
    df_original,      \* None or Some(DataFrame)
    compare_mode,     \* sidebar checkbox
    start_date_1, end_date_1,     \* main period (Some(date) once read)
    start_date_2, end_date_2,     \* comparison period (Some(date) once read)
    selected_stores,  \* sidebar multiselect
    df_period_1, df_period_2,
    warning_shown,    \* st.warning of line 204 is on screen
    kpi,              \* tab1: KPI cards
    trend,            \* tab1: monthly trend line chart
    donut,            \* tab1: composition by store
    heat,             \* tab2: heatmap section
    stats,            \* tab2: mean/median section
    display           \* tab3: data explorer table

vars == <<cache, fetches, pc, error_shown, df_original, compare_mode,
          start_date_1, end_date_1, start_date_2, end_date_2, selected_stores,
          df_period_1, df_period_2, warning_shown,
          kpi, trend, donut, heat, stats, display>>

None == <<>>
Some(x) == <<x>>

---------------------------------------------------------------------------
(* Bounds of the model *)

\* longest sheet (number of data rows) the remote source serves
MaxRows == 2

\* values a sheet cell can hold
Stores == {"A", "B"}
DateUniverse == {20231231, 20240131, 20240201}
SalesUniverse == {-1, 0, 2}

RawRows == [date : DateUniverse, store : Stores, sales : SalesUniverse]

\* the sheets the remote source can serve: non-empty, any row order
Sheets == UNION {[1..n -> RawRows] : n \in 1..MaxRows}

---------------------------------------------------------------------------
(* Strings and numbers *)

\* lexicographic order of two strings (sequences of character codes)
RECURSIVE StrLess(_, _)
StrLess(a, b) ==
    IF b = <<>> THEN FALSE
    ELSE IF a = <<>> THEN TRUE
    ELSE IF Head(a) # Head(b) THEN Head(a) < Head(b)
    ELSE StrLess(Tail(a), Tail(b))

TwoDigits(n) == <<48 + (n \div 10), 48 + (n % 10)>>
FourDigits(n) == TwoDigits(n \div 100) \o TwoDigits(n % 100)

\* decimal digits of a natural number
RECURSIVE Digits(_)
Digits(n) == IF n < 10 THEN <<48 + n>> ELSE Digits(n \div 10) \o <<48 + (n % 10)>>

\* digits with a comma between groups of three
RECURSIVE Grouped(_)
Grouped(n) ==
    IF n < 1000 THEN Digits(n)
    ELSE Grouped(n \div 1000) \o <<44>> \o
         <<48 + ((n \div 100) % 10), 48 + ((n \div 10) % 10), 48 + (n % 10)>>

\* f"${x:,.0f}" for an integral x
FormatCurrency(x) ==
    IF x < 0 THEN <<36, 45>> \o Grouped(0 - x) ELSE <<36>> \o Grouped(x)

Rat(n, d) == [num |-> n, den |-> d]
RatSub(x, y) == Rat(x.num * y.den - y.num * x.den, x.den * y.den)
RatDiv(x, y) == Rat(x.num * y.den, x.den * y.num)
RatScale(x, k) == Rat(x.num * k, x.den)
\* x > 0 for a float x (False for NaN); denominators here are counts, never negative
RatPositive(x) == x.den > 0 /\ x.num > 0

---------------------------------------------------------------------------
(* Calendar fields derived by the loader *)

Year(d) == d \div 10000
MonthNum(d) == (d \div 100) % 100
DayOfMonth(d) == d % 100

DayNames == <<"Sunday", "Monday", "Tuesday", "Wednesday", "Thursday", "Friday", "Saturday">>
MonthOffsets == <<0, 3, 2, 5, 0, 3, 5, 1, 4, 6, 2, 4>>

\* Series.dt.day_name(): the weekday of the Gregorian date
DayName(d) ==
    LET y == IF MonthNum(d) < 3 THEN Year(d) - 1 ELSE Year(d)
        w == (y + (y \div 4) - (y \div 100) + (y \div 400)
                + MonthOffsets[MonthNum(d)] + DayOfMonth(d)) % 7
    IN DayNames[w + 1]

\* strftime('%b'): Jan Feb Mar Apr May Jun Jul Aug Sep Oct Nov Dec
MonthAbbr == << <<74, 97, 110>>, <<70, 101, 98>>, <<77, 97, 114>>, <<65, 112, 114>>,
                <<77, 97, 121>>, <<74, 117, 110>>, <<74, 117, 108>>, <<65, 117, 103>>,
                <<83, 101, 112>>, <<79, 99, 116>>, <<78, 111, 118>>, <<68, 101, 99>> >>

\* to_period('M').astype(str): 'YYYY-MM'
MonthYear(d) == FourDigits(Year(d)) \o <<45>> \o TwoDigits(MonthNum(d))

\* strftime('%d/%m/%Y')
StrftimeDMY(d) ==
    TwoDigits(DayOfMonth(d)) \o <<47>> \o TwoDigits(MonthNum(d)) \o <<47>> \o FourDigits(Year(d))

DeriveRow(r) ==
    [date |-> r.date, store |-> r.store, sales |-> r.sales,
     year |-> Year(r.date), month_num |-> MonthNum(r.date),
     day_of_week |-> DayName(r.date), month_name |-> MonthAbbr[MonthNum(r.date)],
     month_year |-> MonthYear(r.date)]

Derive(rows) == [i \in 1..Len(rows) |-> DeriveRow(rows[i])]

---------------------------------------------------------------------------
(* Data loader *)

\* faulty variant: the except branch hands back what was parsed so far
LoadResultKeepsPartial(outcome) == Some(Derive(outcome.rows))

\* body of load_data_from_gsheets for one fetch outcome: the parsed frame on
\* success, None from the except branch (rows are what was parsed by then)
LoadResult(outcome) == IF outcome.ok THEN Some(Derive(outcome.rows)) ELSE None

FetchOutcomes == [ok : BOOLEAN, rows : Sheets]

\* faulty variant: the function is not memoized, its body runs on every call
LoadFetchUncached ==
    /\ pc = "start"
    /\ \E outcome \in FetchOutcomes :
         /\ cache' = Some([value |-> LoadResult(outcome), error |-> ~outcome.ok])
         /\ df_original' = LoadResult(outcome)
         /\ error_shown' = ~outcome.ok
    /\ fetches' = fetches + 1
    /\ pc' = "fetched"
    /\ UNCHANGED <<compare_mode, start_date_1, end_date_1, start_date_2, end_date_2,
                   selected_stores, df_period_1, df_period_2, warning_shown,
                   kpi, trend, donut, heat, stats, display>>

\* first call: the function body runs and its result (None included) and its
\* st.error element are stored by st.cache_data
LoadFetch ==
    /\ pc = "start"
    /\ cache = None
    /\ \E outcome \in FetchOutcomes :
         /\ cache' = Some([value |-> LoadResult(outcome), error |-> ~outcome.ok])
         /\ df_original' = LoadResult(outcome)
         /\ error_shown' = ~outcome.ok
    /\ fetches' = fetches + 1
    /\ pc' = "fetched"
    /\ UNCHANGED <<compare_mode, start_date_1, end_date_1, start_date_2, end_date_2,
                   selected_stores, df_period_1, df_period_2, warning_shown,
                   kpi, trend, donut, heat, stats, display>>

\* later calls with the same sheet_id: the stored result and elements are replayed
LoadCached ==
    /\ pc = "start"
    /\ cache # None
    /\ df_original' = cache[1].value
    /\ error_shown' = cache[1].error
    /\ pc' = "replayed"
    /\ UNCHANGED <<cache, fetches, compare_mode, start_date_1, end_date_1,
                   start_date_2, end_date_2, selected_stores, df_period_1,
                   df_period_2, warning_shown, kpi, trend, donut, heat, stats, display>>

\* the loader has returned: its body ran ("fetched") or st.cache_data replayed it
Loaded == pc \in {"fetched", "replayed"}

\* if df_original is None: st.stop()
StopOnLoadFailure ==
    /\ Loaded
    /\ df_original = None
    /\ pc' = "stopped"
    /\ UNCHANGED <<cache, fetches, error_shown, df_original, compare_mode,
                   start_date_1, end_date_1, start_date_2, end_date_2, selected_stores,
                   df_period_1, df_period_2, warning_shown,
                   kpi, trend, donut, heat, stats, display>>

---------------------------------------------------------------------------
(* Sidebar filters *)

\* faulty variant: the right end is exclusive
BetweenExclusiveRight(x, left, right) == left <= x /\ x < right

\* Series.between(left, right), inclusive on both sides
Between(x, left, right) == left <= x /\ x <= right

FilterDates(df, start, end) == SelectSeq(df, LAMBDA r : Between(r.date, start, end))

\* df[df['store'].isin(selected)]
FilterStores(df, selected) == SelectSeq(df, LAMBDA r : r.store \in selected)

ColumnDates(df) == {df[i].date : i \in 1..Len(df)}
ColumnStores(df) == {df[i].store : i \in 1..Len(df)}
MinDate(df) == CHOOSE d \in ColumnDates(df) : \A e \in ColumnDates(df) : d <= e
MaxDate(df) == CHOOSE d \in ColumnDates(df) : \A e \in ColumnDates(df) : e <= d

\* a st.date_input range: start <= end, both within [min_value, max_value]
DateRanges(min_value, max_value) ==
    {p \in DateUniverse \X DateUniverse :
        /\ min_value <= p[1]
        /\ p[1] <= p[2]
        /\ p[2] <= max_value}

\* lines 152-201 for one reading of the widgets
Sidebar ==
    /\ Loaded
    /\ df_original # None
    /\ LET df == df_original[1]
           ranges == DateRanges(MinDate(df), MaxDate(df))
       IN \E cm \in BOOLEAN, p1 \in ranges, p2 \in ranges, sel \in SUBSET ColumnStores(df) :
            LET by_date_1 == FilterDates(df, p1[1], p1[2])
                by_date_2 == IF cm THEN FilterDates(df, p2[1], p2[2]) ELSE <<>>
            IN /\ compare_mode' = cm
               /\ start_date_1' = Some(p1[1])
               /\ end_date_1' = Some(p1[2])
               /\ start_date_2' = IF cm THEN Some(p2[1]) ELSE None
               /\ end_date_2' = IF cm THEN Some(p2[2]) ELSE None
               /\ selected_stores' = sel
               /\ df_period_1' = FilterStores(by_date_1, sel)
               /\ df_period_2' = IF by_date_2 # <<>> THEN FilterStores(by_date_2, sel)
                                 ELSE by_date_2
    /\ pc' = "filtered"
    /\ UNCHANGED <<cache, fetches, error_shown, df_original, warning_shown,
                   kpi, trend, donut, heat, stats, display>>

\* if df_period_1.empty: st.warning(...); st.stop()
StopOnEmpty ==
    /\ pc = "filtered"
    /\ df_period_1 = <<>>
    /\ warning_shown' = TRUE
    /\ pc' = "stopped"
    /\ UNCHANGED <<cache, fetches, error_shown, df_original, compare_mode,
                   start_date_1, end_date_1, start_date_2, end_date_2, selected_stores,
                   df_period_1, df_period_2, kpi, trend, donut, heat, stats, display>>

---------------------------------------------------------------------------
(* pandas helpers used by the main screen *)

\* Series.sum() of the sales column
RECURSIVE SumSales(_)
SumSales(df) == IF df = <<>> THEN 0 ELSE Head(df).sales + SumSales(Tail(df))

\* the keys of a set in ascending (lexicographic) order
RECURSIVE SortedKeys(_)
SortedKeys(S) ==
    IF S = {} THEN <<>>
    ELSE LET m == CHOOSE x \in S : \A y \in S : ~StrLess(y, x)
         IN <<m>> \o SortedKeys(S \ {m})

\* groupby(key)['sales'].sum() of rows [key, sales]: one row per key, keys ascending
GroupSum(keyed) ==
    LET keys == SortedKeys({keyed[i].key : i \in 1..Len(keyed)})
    IN [j \in 1..Len(keys) |->
          [key |-> keys[j],
           sales |-> SumSales(SelectSeq(keyed, LAMBDA r : r.key = keys[j]))]]

\* Series.mean(); NaN (den = 0) for an empty series
SeriesMean(s) == Rat(SumSales(s), Len(s))

\* stable insertion of an item [key, row] into a sequence ascending by key
RECURSIVE InsertAsc(_, _)
InsertAsc(sorted, item) ==
    IF sorted = <<>> THEN <<item>>
    ELSE IF StrLess(item.key, Head(sorted).key) THEN <<item>> \o sorted
    ELSE <<Head(sorted)>> \o InsertAsc(Tail(sorted), item)

RECURSIVE SortAsc(_)
SortAsc(items) ==
    IF items = <<>> THEN <<>>
    ELSE InsertAsc(SortAsc(SubSeq(items, 1, Len(items) - 1)), items[Len(items)])

\* stable insertion into a sequence descending by key
RECURSIVE InsertDesc(_, _)
InsertDesc(sorted, item) ==
    IF sorted = <<>> THEN <<item>>
    ELSE IF StrLess(Head(sorted).key, item.key) THEN <<item>> \o sorted
    ELSE <<Head(sorted)>> \o InsertDesc(Tail(sorted), item)

RECURSIVE SortDesc(_)
SortDesc(items) ==
    IF items = <<>> THEN <<>>
    ELSE InsertDesc(SortDesc(SubSeq(items, 1, Len(items) - 1)), items[Len(items)])

Rows(items) == [i \in 1..Len(items) |-> items[i].row]

---------------------------------------------------------------------------
(* Tab 1: executive summary *)

\* faulty variant: the emptiness of the comparison subset is not looked at
ShowComparisonIgnoringEmpty(cm, df2) == cm

\* the condition of lines 218, 268, 308 and 325
ShowComparison(cm, df2) == cm /\ df2 # <<>>

\* df.groupby('date')['sales'].sum().mean()
AvgDailySales(df) ==
    SeriesMean(GroupSum([i \in 1..Len(df) |-> [key |-> <<df[i].date>>, sales |-> df[i].sales]]))

\* ((v1 - v2) / v2) * 100 if v2 > 0 else float('inf')
PctChange(v1, v2) ==
    IF RatPositive(v2)
    THEN [inf |-> FALSE, value |-> RatScale(RatDiv(RatSub(v1, v2), v2), 100)]
    ELSE [inf |-> TRUE, value |-> Rat(1, 0)]

KpiSection(cm, df1, df2) ==
    LET total_sales_1 == SumSales(df1)
        avg_daily_sales_1 == AvgDailySales(df1)
        total_sales_2 == SumSales(df2)
        avg_daily_sales_2 == AvgDailySales(df2)
    IN IF ShowComparison(cm, df2)
       THEN [mode |-> "comparison",
             total_sales_1 |-> total_sales_1, avg_daily_sales_1 |-> avg_daily_sales_1,
             total_sales_2 |-> total_sales_2, avg_daily_sales_2 |-> avg_daily_sales_2,
             sales_var |-> PctChange(Rat(total_sales_1, 1), Rat(total_sales_2, 1)),
             avg_sales_var |-> PctChange(avg_daily_sales_1, avg_daily_sales_2)]
       ELSE [mode |-> "single",
             total_sales_1 |-> total_sales_1, avg_daily_sales_1 |-> avg_daily_sales_1]

\* df.groupby(['month_num', 'month_name'])['sales'].sum().reset_index() + 'Period'
MonthlySales(df, period) ==
    LET g == GroupSum([i \in 1..Len(df) |->
                         [key |-> <<df[i].month_num>> \o df[i].month_name,
                          sales |-> df[i].sales]])
    IN [j \in 1..Len(g) |->
          [month_num |-> Head(g[j].key), month_name |-> Tail(g[j].key),
           sales |-> g[j].sales, Period |-> period]]

\* faulty variant: the frame is sorted by the month's name
TrendSortKeyByName(r) == r.month_name

\* the column of sort_values('month_num')
TrendSortKey(r) == <<r.month_num>>

\* px.line(..., color='Period'): one line per Period value, points in frame order
LinesByPeriod(plot_df) ==
    [p \in {plot_df[i].Period : i \in 1..Len(plot_df)} |->
        SelectSeq(plot_df, LAMBDA r : r.Period = p)]

TrendSection(cm, df1, df2) ==
    IF ShowComparison(cm, df2)
    THEN LET both == MonthlySales(df1, "Main") \o MonthlySales(df2, "Comparison")
             plot_df == Rows(SortAsc([i \in 1..Len(both) |->
                                        [key |-> TrendSortKey(both[i]), row |-> both[i]]]))
         IN [mode |-> "comparison", x |-> "month_name", lines |-> LinesByPeriod(plot_df)]
    ELSE LET g == GroupSum([i \in 1..Len(df1) |->
                              [key |-> df1[i].month_year, sales |-> df1[i].sales]])
             plot_df == [j \in 1..Len(g) |-> [month_year |-> g[j].key, sales |-> g[j].sales]]
         IN [mode |-> "single", x |-> "month_year", lines |-> [p \in {"Main"} |-> plot_df]]

\* df_period_1.groupby('store')['sales'].sum()
StoreSales(df) ==
    [s \in ColumnStores(df) |-> SumSales(SelectSeq(df, LAMBDA r : r.store = s))]

---------------------------------------------------------------------------
(* Tab 2: comparative analysis *)

ordered_days == <<"Monday", "Tuesday", "Wednesday", "Thursday", "Friday", "Saturday", "Sunday">>

\* df.pivot_table(values='sales', index='store', columns='day_of_week', aggfunc='mean'):
\* a column per day that occurs, a cell is None (NaN) when the pair has no rows
PivotTable(df) ==
    [index |-> ColumnStores(df),
     columns |-> {df[i].day_of_week : i \in 1..Len(df)},
     cell |-> [s \in ColumnStores(df) |->
                 [d \in {df[i].day_of_week : i \in 1..Len(df)} |->
                    LET rows == SelectSeq(df, LAMBDA r : r.store = s /\ r.day_of_week = d)
                    IN IF rows = <<>> THEN None ELSE Some(SeriesMean(rows))]]]

\* .reindex(columns=cols): exactly the columns cols, in that order, None where new
Reindex(pt, cols) ==
    [index |-> pt.index,
     columns |-> cols,
     cell |-> [s \in pt.index |->
                 [d \in {cols[i] : i \in 1..Len(cols)} |->
                    IF d \in pt.columns THEN pt.cell[s][d] ELSE None]]]

\* faulty variant: no reindex, the pivot's own columns in their sorted order
HeatmapDataAsPivoted(df) ==
    LET pt == PivotTable(df)
    IN [index |-> pt.index,
        columns |-> SelectSeq(<<"Friday", "Monday", "Saturday", "Sunday", "Thursday",
                                "Tuesday", "Wednesday">>, LAMBDA d : d \in pt.columns),
        cell |-> pt.cell]

HeatmapData(df) == Reindex(PivotTable(df), ordered_days)

create_heatmap(df, title) ==
    IF df = <<>>
    THEN [fig |-> None, info |-> TRUE]
    ELSE [fig |-> Some([title |-> title, x |-> ordered_days, z |-> HeatmapData(df)]),
          info |-> FALSE]

HeatSection(cm, df1, df2) ==
    IF ShowComparison(cm, df2)
    THEN [mode |-> "comparison",
          charts |-> <<create_heatmap(df1, "Main Period"),
                       create_heatmap(df2, "Comparison Period")>>]
    ELSE [mode |-> "single",
          charts |-> <<create_heatmap(df1, "Performance in Selected Period")>>]

\* df[df['sales'] > 0]
IsOperatingDay(r) == r.sales > 0

\* Series.median(): middle value, or the mean of the two middle values
Median(s) ==
    LET v == Rows(SortAsc([i \in 1..Len(s) |-> [key |-> <<s[i].sales>>, row |-> s[i].sales]]))
        n == Len(v)
    IN IF n % 2 = 1 THEN Rat(v[(n + 1) \div 2], 1)
       ELSE Rat(v[n \div 2] + v[(n \div 2) + 1], 2)

\* groupby('store')['sales'].agg(['mean', 'median']) over the operating days
StatsTable(df) ==
    LET df_operating_days == SelectSeq(df, IsOperatingDay)
    IN [s \in ColumnStores(df_operating_days) |->
          LET rows == SelectSeq(df_operating_days, LAMBDA r : r.store = s)
          IN [mean |-> SeriesMean(rows), median |-> Median(rows)]]

\* the guard looks at the subset, the chart is built from the stats table
create_stats_barchart(df, title) ==
    IF df = <<>>
    THEN [fig |-> None, info |-> TRUE]
    ELSE [fig |-> Some([title |-> title, table |-> StatsTable(df)]), info |-> FALSE]

StatsSection(cm, df1, df2) ==
    IF ShowComparison(cm, df2)
    THEN [mode |-> "comparison",
          charts |-> <<create_stats_barchart(df1, "Main Period"),
                       create_stats_barchart(df2, "Comparison Period")>>]
    ELSE [mode |-> "single",
          charts |-> <<create_stats_barchart(df1, "Performance in Selected Period")>>]

---------------------------------------------------------------------------
(* Tab 3: data explorer *)

DisplayRow(r) ==
    [date |-> StrftimeDMY(r.date), store |-> r.store,
     sales |-> FormatCurrency(r.sales), day_of_week |-> r.day_of_week]

\* df_display.sort_values(by="date", ascending=False) on the formatted column
DataExplorer(df) ==
    Rows(SortDesc([i \in 1..Len(df) |->
                     [key |-> DisplayRow(df[i]).date, row |-> DisplayRow(df[i])]]))

---------------------------------------------------------------------------
(* The render cycle *)

\* lines 207-349: the three tabs, in one run of the script
MainScreen ==
    /\ pc = "filtered"
    /\ df_period_1 # <<>>
    /\ kpi' = Some(KpiSection(compare_mode, df_period_1, df_period_2))
    /\ trend' = Some(TrendSection(compare_mode, df_period_1, df_period_2))
    /\ donut' = Some(StoreSales(df_period_1))
    /\ heat' = Some(HeatSection(compare_mode, df_period_1, df_period_2))
    /\ stats' = Some(StatsSection(compare_mode, df_period_1, df_period_2))
    /\ display' = Some(DataExplorer(df_period_1))
    /\ pc' = "done"
    /\ UNCHANGED <<cache, fetches, error_shown, df_original, compare_mode,
                   start_date_1, end_date_1, start_date_2, end_date_2, selected_stores,
                   df_period_1, df_period_2, warning_shown>>

\* a user interaction: the script starts again with fresh variables; only the
\* st.cache_data store survives
Rerun ==
    /\ pc \in {"stopped", "done"}
    /\ pc' = "start"
    /\ error_shown' = FALSE
    /\ df_original' = None
    /\ compare_mode' = FALSE
    /\ start_date_1' = None /\ end_date_1' = None
    /\ start_date_2' = None /\ end_date_2' = None
    /\ selected_stores' = {}
    /\ df_period_1' = <<>> /\ df_period_2' = <<>>
    /\ warning_shown' = FALSE
    /\ kpi' = None /\ trend' = None /\ donut' = None
    /\ heat' = None /\ stats' = None /\ display' = None
    /\ UNCHANGED <<cache, fetches>>

Init ==
    /\ cache = None
    /\ fetches = 0
    /\ pc = "start"
    /\ error_shown = FALSE
    /\ df_original = None
    /\ compare_mode = FALSE
    /\ start_date_1 = None /\ end_date_1 = None
    /\ start_date_2 = None /\ end_date_2 = None
    /\ selected_stores = {}
    /\ df_period_1 = <<>> /\ df_period_2 = <<>>
    /\ warning_shown = FALSE
    /\ kpi = None /\ trend = None /\ donut = None
    /\ heat = None /\ stats = None /\ display = None

Next ==
    \/ LoadFetch
    \/ LoadCached
    \/ StopOnLoadFailure
    \/ Sidebar
    \/ StopOnEmpty
    \/ MainScreen
    \/ Rerun

Spec == Init /\ [][Next]_vars

---------------------------------------------------------------------------
(* Helpers of the properties: computed from row indices, not by the       *)
(* operators above                                                         *)

Idx(df) == 1..Len(df)
Range(df) == {df[i] : i \in Idx(df)}
Count(df, r) == Cardinality({i \in Idx(df) : df[i] = r})

\* sum of the sales of the rows at the indices I
RECURSIVE SumAt(_, _)
SumAt(I, df) ==
    IF I = {} THEN 0
    ELSE LET i == CHOOSE j \in I : TRUE IN df[i].sales + SumAt(I \ {i}, df)

\* the Sidebar step of this cycle has run
FiltersRead == start_date_1 # None

InPeriod1(r) ==
    /\ start_date_1[1] <= r.date /\ r.date <= end_date_1[1]
    /\ r.store \in selected_stores

InPeriod2(r) ==
    /\ start_date_2[1] <= r.date /\ r.date <= end_date_2[1]
    /\ r.store \in selected_stores

\* the subset a chart of a two-chart section was built from
SubsetOf(k) == IF k = 1 THEN df_period_1 ELSE df_period_2

---------------------------------------------------------------------------
(* C1 *)

\* C1: once the filters are read, the main subset holds exactly the rows of
\* the dataset with start <= date <= end and store selected (each as often as
\* the dataset holds it), it is empty iff no row qualifies, and in compare
\* mode the same holds of the comparison subset and its range.
C1_FilterExact ==
    FiltersRead =>
      LET df == df_original[1]
      IN /\ \A r \in Range(df) \cup Range(df_period_1) :
              Count(df_period_1, r) = IF InPeriod1(r) THEN Count(df, r) ELSE 0
         /\ (df_period_1 = <<>>) <=> ~(\E r \in Range(df) : InPeriod1(r))
         /\ compare_mode =>
              /\ \A r \in Range(df) \cup Range(df_period_2) :
                   Count(df_period_2, r) = IF InPeriod2(r) THEN Count(df, r) ELSE 0
              /\ (df_period_2 = <<>>) <=> ~(\E r \in Range(df) : InPeriod2(r))

\* both subsets are non-empty and the main one leaves out a row of the dataset
C1_Witness ==
    /\ FiltersRead
    /\ compare_mode
    /\ df_period_1 # <<>>
    /\ df_period_2 # <<>>
    /\ Len(df_period_1) < Len(df_original[1])

---------------------------------------------------------------------------
(* C2 *)

\* d is the percentage change of v1 against v2 as the claim defines it
DeltaAsClaimed(d, v1, v2) ==
    /\ d.inf <=> (v2.num = 0)
    /\ v2.num # 0 =>
         /\ ~d.inf
         /\ d.value.num * (v1.den * v2.num)
              = (v1.num * v2.den - v2.num * v1.den) * 100 * d.value.den

TotalOf(df) == Rat(SumAt(Idx(df), df), 1)
DailyAverageOf(df) == Rat(SumAt(Idx(df), df), Cardinality({df[i].date : i \in Idx(df)}))

\* C2: on the comparison KPI cards, the delta of total sales and of average
\* daily sales is (value1 - value2) / value2 * 100 whenever value2 is not zero
\* and +infinity exactly when value2 is zero.
C2_DeltaPolicy ==
    (kpi # None /\ kpi[1].mode = "comparison") =>
      /\ DeltaAsClaimed(kpi[1].sales_var, TotalOf(df_period_1), TotalOf(df_period_2))
      /\ DeltaAsClaimed(kpi[1].avg_sales_var,
                        DailyAverageOf(df_period_1), DailyAverageOf(df_period_2))

---------------------------------------------------------------------------
(* C3 *)

NonZeroAt(df, s) == {i \in Idx(df) : df[i].store = s /\ df[i].sales # 0}

\* m is a median of the sales at the indices I: at most half lie on each side
IsMedianAt(m, I, df) ==
    /\ m.den > 0
    /\ 2 * Cardinality({i \in I : df[i].sales * m.den < m.num}) <= Cardinality(I)
    /\ 2 * Cardinality({i \in I : df[i].sales * m.den > m.num}) <= Cardinality(I)

\* C3: every mean/median chart lists exactly the stores that have a row with
\* sales # 0, and a store's mean and median are taken over all its rows with
\* sales # 0 (rows with sales = 0, and no others, are left out).
C3_ExcludesExactlyZeroSales ==
    stats # None =>
      \A k \in DOMAIN stats[1].charts :
        LET c == stats[1].charts[k]
            df == SubsetOf(k)
        IN c.fig # None =>
             /\ DOMAIN c.fig[1].table = {s \in Stores : NonZeroAt(df, s) # {}}
             /\ \A s \in DOMAIN c.fig[1].table :
                  /\ c.fig[1].table[s].mean.num * Cardinality(NonZeroAt(df, s))
                       = SumAt(NonZeroAt(df, s), df) * c.fig[1].table[s].mean.den
                  /\ IsMedianAt(c.fig[1].table[s].median, NonZeroAt(df, s), df)

---------------------------------------------------------------------------
(* C4 *)

\* the calendar date (yyyymmdd) a displayed 'dd/mm/YYYY' string stands for
DateOfDMY(str) ==
    LET n(i) == str[i] - 48
    IN (n(7) * 1000 + n(8) * 100 + n(9) * 10 + n(10)) * 10000
         + (n(4) * 10 + n(5)) * 100 + (n(1) * 10 + n(2))

\* C4: in the data explorer a row shown earlier never has an earlier calendar
\* date than a row shown after it.
C4_ExplorerDateDescending ==
    display # None =>
      \A i, j \in Idx(display[1]) :
        i < j => DateOfDMY(display[1][i].date) >= DateOfDMY(display[1][j].date)

---------------------------------------------------------------------------
(* C5 *)

\* C5: while the loader's error is on screen the cycle holds no dataset, has
\* read no filter, has computed no subset and has rendered no section: it is
\* at the loader's return or stopped.
C5_LoadFailureHalts ==
    error_shown =>
      /\ df_original = None
      /\ pc \in {"fetched", "replayed", "stopped"}
      /\ ~FiltersRead
      /\ df_period_1 = <<>> /\ df_period_2 = <<>>
      /\ ~warning_shown
      /\ kpi = None /\ trend = None /\ donut = None
      /\ heat = None /\ stats = None /\ display = None

\* a cycle stopped by a failed load
C5_Witness == error_shown /\ pc = "stopped"

---------------------------------------------------------------------------
(* C6 *)

\* C6: no step makes a second fetch, no step changes a populated cache entry,
\* and every return of the loader hands out the cached value.
C6_FetchOnce ==
    [][/\ fetches' <= 1
       /\ cache # None => cache' = cache
       /\ pc' \in {"fetched", "replayed"} => (cache' # None /\ df_original' = cache'[1].value)
      ]_vars

\* a later cycle served a dataset from the cache after the single fetch
C6_Witness == pc = "replayed" /\ fetches = 1 /\ df_original # None

---------------------------------------------------------------------------
(* C7 *)

\* the months (as numbers) and year-months (yyyymm) of a subset
MonthsOf(df) == {MonthNum(df[i].date) : i \in Idx(df)}
YearMonthsOf(df) == {df[i].date \div 100 : i \in Idx(df)}

\* the yyyymm a 'YYYY-MM' label stands for
YearMonthOfLabel(str) ==
    LET n(i) == str[i] - 48
    IN (n(1) * 1000 + n(2) * 100 + n(3) * 10 + n(4)) * 100 + (n(6) * 10 + n(7))

\* the calendar month number of a plotted point
MonthOfPoint(mode, p) ==
    IF mode = "comparison" THEN p.month_num ELSE YearMonthOfLabel(p.month_year) % 100

\* C7 as stated: in both modes every plotted series is in ascending calendar
\* month number.
C7_TrendByMonthNumber ==
    trend # None =>
      \A name \in DOMAIN trend[1].lines :
        LET line == trend[1].lines[name]
        IN \A i, j \in Idx(line) :
             i < j => MonthOfPoint(trend[1].mode, line[i]) < MonthOfPoint(trend[1].mode, line[j])

\* C7 as amended: in compare mode each series has one point per calendar month
\* of its subset, labelled with that month's name, in ascending month number;
\* in single-period mode the series has one point per year-month of the main
\* subset, in ascending chronological (year, month) order.
C7_TrendOrder ==
    trend # None =>
      IF trend[1].mode = "comparison"
      THEN /\ DOMAIN trend[1].lines = {"Main", "Comparison"}
           /\ \A name \in DOMAIN trend[1].lines :
                LET line == trend[1].lines[name]
                    df == IF name = "Main" THEN df_period_1 ELSE df_period_2
                IN /\ {line[i].month_num : i \in Idx(line)} = MonthsOf(df)
                   /\ \A i \in Idx(line) : line[i].month_name = MonthAbbr[line[i].month_num]
                   /\ \A i, j \in Idx(line) : i < j => line[i].month_num < line[j].month_num
      ELSE LET line == trend[1].lines["Main"]
           IN /\ {YearMonthOfLabel(line[i].month_year) : i \in Idx(line)}
                   = YearMonthsOf(df_period_1)
              /\ \A i, j \in Idx(line) :
                   i < j => YearMonthOfLabel(line[i].month_year)
                              < YearMonthOfLabel(line[j].month_year)

\* a compare-mode series whose months come in an order that differs from the
\* order of their names (Jan before Feb)
C7_Witness ==
    /\ trend # None
    /\ trend[1].mode = "comparison"
    /\ \E name \in DOMAIN trend[1].lines :
         LET line == trend[1].lines[name]
         IN /\ Len(line) = 2
            /\ StrLess(line[2].month_name, line[1].month_name)

---------------------------------------------------------------------------
(* C8 *)

DayAt(df, s, d) == {i \in Idx(df) : df[i].store = s /\ DayName(df[i].date) = d}

\* C8: every heatmap built has exactly the columns Monday..Sunday in that
\* order and a row per store of its subset; a (store, day) cell without rows
\* is empty and any other cell is the mean of the pair's sales.
C8_HeatmapTable ==
    heat # None =>
      \A k \in DOMAIN heat[1].charts :
        LET c == heat[1].charts[k]
            df == SubsetOf(k)
        IN /\ c.fig # None
           /\ c.fig[1].z.columns = <<"Monday", "Tuesday", "Wednesday", "Thursday",
                                     "Friday", "Saturday", "Sunday">>
           /\ c.fig[1].z.index = {df[i].store : i \in Idx(df)}
           /\ \A s \in c.fig[1].z.index :
                \A n \in 1..7 :
                  LET d == c.fig[1].z.columns[n]
                      cell == c.fig[1].z.cell[s][d]
                  IN IF DayAt(df, s, d) = {}
                     THEN cell = None
                     ELSE /\ cell # None
                          /\ cell[1].den = Cardinality(DayAt(df, s, d))
                          /\ cell[1].num = SumAt(DayAt(df, s, d), df)

\* a heatmap with an empty cell in the column of a day that occurs in its subset
C8_Witness ==
    /\ heat # None
    /\ \E k \in DOMAIN heat[1].charts :
         \E s \in heat[1].charts[k].fig[1].z.index :
           \E i \in Idx(SubsetOf(k)) :
             heat[1].charts[k].fig[1].z.cell[s][SubsetOf(k)[i].day_of_week] = None

---------------------------------------------------------------------------
(* C9 *)

\* C9: a chart builder returns a chart only of a non-empty aggregated table
\* (a heatmap of a subset with rows, mean/median bars of a subset with a row
\* whose sales are not 0); otherwise it returns no chart and shows the
\* placeholder.
C9_NoChartOfEmptyTable ==
    /\ heat # None =>
         \A k \in DOMAIN heat[1].charts :
           LET c == heat[1].charts[k]
           IN /\ c.fig # None <=> SubsetOf(k) # <<>>
              /\ c.fig = None => c.info
    /\ stats # None =>
         \A k \in DOMAIN stats[1].charts :
           LET c == stats[1].charts[k]
           IN /\ c.fig # None <=> (\E i \in Idx(SubsetOf(k)) : SubsetOf(k)[i].sales # 0)
              /\ c.fig = None => c.info

---------------------------------------------------------------------------
(* C10 *)

\* compare mode is on and some dataset row lies in the comparison range and
\* in a selected store
ComparisonHasRows == compare_mode /\ \E r \in Range(df_original[1]) : InPeriod2(r)

FormOf(cmp) == IF cmp THEN "comparison" ELSE "single"

\* C10: on the main screen the KPI cards, the trend, the heatmaps and the
\* mean/median charts are all in comparison form if compare mode is on and the
\* store-filtered comparison subset is non-empty, and all in single-period
\* form otherwise; with compare mode off the comparison subset is empty.
C10_SectionsAgree ==
    /\ (FiltersRead /\ ~compare_mode) => df_period_2 = <<>>
    /\ kpi # None =>
         /\ kpi[1].mode = FormOf(ComparisonHasRows)
         /\ trend[1].mode = FormOf(ComparisonHasRows)
         /\ DOMAIN trend[1].lines =
              IF ComparisonHasRows THEN {"Main", "Comparison"} ELSE {"Main"}
         /\ heat[1].mode = FormOf(ComparisonHasRows)
         /\ Len(heat[1].charts) = IF ComparisonHasRows THEN 2 ELSE 1
         /\ stats[1].mode = FormOf(ComparisonHasRows)
         /\ Len(stats[1].charts) = IF ComparisonHasRows THEN 2 ELSE 1

\* the main screen rendered with compare mode on and an empty comparison subset
C10_Witness == kpi # None /\ compare_mode /\ df_period_2 = <<>>

====
